---- MODULE Spec2Model ----
(***************************************************************************)
(* A model of services/chatbot_service.py: the ChatbotService RAG          *)
(* pipeline (_search_similar, _build_prompt, generate_response) and its    *)
(* session-keyed message store, run by concurrent callers.                 *)
(*                                                                         *)
(* Text is modelled as a sequence of tokens (a token is one character or   *)
(* one literal chunk of a format string); concatenation is \o.  An         *)
(* optional value is None (= <<>>) or Some(v) (= <<v>>).  A number is a   *)
(* rational <<num, den>> with den > 0: the exact value of what the code    *)
(* computes in floating point, except in the conversion specification,     *)
(* which rounds every operation to a binary significand of Precision bits. *)
(***************************************************************************)
EXTENDS Integers, Sequences, FiniteSets, TLC

\* ---------------------------------------------------------------- bounds
\* Calls to generate_response made in one behaviour of concurrent callers.
MaxCalls == 2
\* The same, when the calls are made one after another.
MaxSeqCalls == 3
\* Longest candidate list the index returns in the retrieval specification.
MaxCands == 3

\* ------------------------------------------------------- optional values
None == << >>
Some(v) == << v >>
IsNone(o) == Len(o) = 0
Get(o) == o[1]

\* ------------------------------------------------------------- rationals
Rat(n, d) == << n, d >>
RatGE(a, b) == a[1] * b[2] >= b[1] * a[2]
RatGT(a, b) == a[1] * b[2] > b[1] * a[2]
RatEQ(a, b) == a[1] * b[2] = b[1] * a[2]

\* ------------------------------------------------- str.strip, str.lower
Whitespace == { " ", "\n", "\t" }

RECURSIVE LStrip(_)
LStrip(s) ==
    IF s # << >> /\ Head(s) \in Whitespace THEN LStrip(Tail(s)) ELSE s

RECURSIVE RStrip(_)
RStrip(s) ==
    IF s # << >> /\ s[Len(s)] \in Whitespace
    THEN RStrip(SubSeq(s, 1, Len(s) - 1))
    ELSE s

Strip(s) == RStrip(LStrip(s))

LowerChar(c) ==
    CASE c = "I" -> "i"
      [] c = "N" -> "n"
      [] c = "T" -> "t"
      [] c = "H" -> "h"
      [] OTHER -> c

Lower(s) == [ i \in 1..Len(s) |-> LowerChar(s[i]) ]

InitWord == << "i", "n", "i", "t" >>

IsInitNoStrip(user_message) == Lower(user_message) = InitWord

\* generate_response, line 387: user_message.strip().lower() == "init"
IsInit(user_message) == Lower(Strip(user_message)) = InitWord

\* ------------------------------------------------ persona configuration
\* chatbot_config.json as _load_config returns it.  A key the document
\* lacks is None; system_prompt is None, a mapping (a record of optional
\* base and rules) or, in a document that parses but has the wrong shape,
\* a plain string.  The Korean literals of the source are written in
\* English here and below.
\* DefaultConfig: the persona _load_config substitutes for a missing file.
\* FullConfig: a document with every key.  BadShapeConfig: a document that
\* lacks name and description and has a string as system_prompt.
DefaultConfig ==
    [ name |-> Some(<< "bot" >>),
      description |-> Some(<< "bot description" >>),
      system_prompt |-> Some([ kind |-> "mapping",
                               base |-> Some(<< "You are a friendly assistant." >>),
                               rules |-> Some(<< << "be kind" >> >>) ]) ]

FullConfig ==
    [ name |-> Some(<< "Mina" >>),
      description |-> Some(<< "a campus guide" >>),
      system_prompt |-> Some([ kind |-> "mapping",
                               base |-> Some(<< "You are Mina." >>),
                               rules |-> Some(<< << "speak casually" >>,
                                                 << "stay in character" >> >>) ]) ]

BadShapeConfig ==
    [ name |-> None,
      description |-> None,
      system_prompt |-> Some([ kind |-> "string", base |-> None, rules |-> None ]) ]

\* BareConfig: a document with a name and no system_prompt key.
\* NoRulesConfig: a document whose system_prompt has a base and an empty
\* list of rules.
BareConfig ==
    [ name |-> Some(<< "Mina" >>), description |-> None, system_prompt |-> None ]

NoRulesConfig ==
    [ name |-> Some(<< "Mina" >>),
      description |-> Some(<< "a campus guide" >>),
      system_prompt |-> Some([ kind |-> "mapping",
                               base |-> Some(<< "You are Mina." >>),
                               rules |-> Some(<< >>) ]) ]

\* dict.get(key, default)
GetOr(o, default) == IF IsNone(o) THEN default ELSE Get(o)

\* ------------------------------------------------------ _search_similar
\* One candidate of the index: the entries of results['documents'][0],
\* results['distances'][0] and results['metadatas'][0] at one position.
Docs == { << >>, << "docA" >> }
Dists == { Rat(0, 1), Rat(6, 5), Rat(5, 4) }
Metas == { "m1", "m2" }
Candidates == [ doc : Docs, dist : Dists, meta : Metas ]

\* The three parallel lists of one query result.
QueryResult(cands) ==
    [ documents |-> [ i \in 1..Len(cands) |-> cands[i].doc ],
      distances |-> [ i \in 1..Len(cands) |-> cands[i].dist ],
      metadatas |-> [ i \in 1..Len(cands) |-> cands[i].meta ] ]

Min(a, b) == IF a <= b THEN a ELSE b

\* zip(documents, distances, metadatas)
Zip(results) ==
    [ i \in 1..Min(Len(results.documents),
                   Min(Len(results.distances), Len(results.metadatas))) |->
        [ doc |-> results.documents[i],
          dist |-> results.distances[i],
          meta |-> results.metadatas[i] ] ]

\* line 309: similarity = 1 / (1 + dist), for dist = n/d: d / (d + n)
Similarity(dist) == Rat(dist[2], dist[2] + dist[1])

\* lines 299-301: the running best before the loop
NoBest == [ document |-> None, similarity |-> Rat(0, 1), metadata |-> None ]

ImprovesNoThreshold(similarity, threshold, best) ==
    RatGT(similarity, best.similarity)

ImprovesOrTies(similarity, threshold, best) ==
    RatGE(similarity, threshold) /\ RatGE(similarity, best.similarity)

\* line 315: similarity >= threshold and similarity > best_similarity
Improves(similarity, threshold, best) ==
    RatGE(similarity, threshold) /\ RatGT(similarity, best.similarity)

\* lines 307-318: the loop, from position i with the running best
RECURSIVE Scan(_, _, _, _)
Scan(zipped, i, threshold, best) ==
    IF i > Len(zipped) THEN best
    ELSE LET similarity == Similarity(zipped[i].dist)
         IN  Scan(zipped, i + 1, threshold,
                  IF Improves(similarity, threshold, best)
                  THEN [ document |-> Some(zipped[i].doc),
                         similarity |-> similarity,
                         metadata |-> Some(zipped[i].meta) ]
                  ELSE best)

\* Python truth value of a str-or-None
Truthy(o) == ~IsNone(o) /\ Get(o) # << >>

Absent == [ document |-> None, similarity |-> None, metadata |-> None ]

\* What one _search_similar call did besides returning: the calls it made
\* to the embedding provider and to the index, and the exception its own
\* handler (line 328) caught, if any.
Outcome(found, embed, query, caught) ==
    [ found |-> found, n_embed |-> embed, n_query |-> query, caught |-> caught ]

\* Mutant: the guard of lines 279-280 is missing; the search embeds the
\* query and then fails on the index it does not have.
SearchSimilarNoGuard(collection, embed_ok, query_result, threshold) ==
    IF ~embed_ok THEN Outcome(Absent, 1, 0, "embedding")
    ELSE Outcome(Absent, 1, 1, "query")

\* Mutant: a failed embedding call is tried a second time.
SearchSimilarRetries(collection, embed_ok, query_result, threshold) ==
    IF IsNone(collection) THEN Outcome(Absent, 0, 0, "none")
    ELSE IF ~embed_ok THEN Outcome(Absent, 2, 0, "embedding")
    ELSE IF IsNone(query_result) THEN Outcome(Absent, 1, 1, "query")
    ELSE Outcome(Absent, 1, 1, "none")

\* _search_similar(query, threshold, top_k).  collection is None or Some;
\* embed_ok says whether the embedding provider answers; query_result is
\* None when collection.query raises, else Some(results).
SearchSimilar(collection, embed_ok, query_result, threshold) ==
    IF IsNone(collection) THEN Outcome(Absent, 0, 0, "none")
    ELSE IF ~embed_ok THEN Outcome(Absent, 1, 0, "embedding")
    ELSE IF IsNone(query_result) THEN Outcome(Absent, 1, 1, "query")
    ELSE LET results == Get(query_result)
         IN  IF results.documents = << >> THEN Outcome(Absent, 1, 1, "none")
             ELSE LET best == Scan(Zip(results), 1, threshold, NoBest)
                  IN  IF Truthy(best.document)
                      THEN Outcome([ document |-> best.document,
                                     similarity |-> Some(best.similarity),
                                     metadata |-> best.metadata ], 1, 1, "none")
                      ELSE Outcome(Absent, 1, 1, "none")

\* --------------------------------------------------------- _build_prompt
RuleHeader == "\n\n[rules]\n"
ContextHeader == "[reference]\n"

RECURSIVE RuleLines(_, _)
RuleLines(rules, i) ==
    IF i > Len(rules) THEN << >>
    ELSE (IF i > 1 THEN << "\n" >> ELSE << >>)
         \o << "- " >> \o rules[i] \o RuleLines(rules, i + 1)

\* lines 346-352; system_prompt_config is a mapping here
SystemPrompt(config) ==
    LET system_prompt_config ==
            GetOr(config.system_prompt,
                  [ kind |-> "mapping", base |-> None, rules |-> None ])
        base_prompt == GetOr(system_prompt_config.base,
                             << "You are a friendly assistant." >>)
        rules == GetOr(system_prompt_config.rules, << >>)
    IN  IF rules # << >>
        THEN base_prompt \o << RuleHeader >> \o RuleLines(rules, 1)
        ELSE base_prompt

\* Mutant: the context block is added after the user's line.
UserPromptContextLast(user_message, context, username) ==
    username \o << ": " >> \o user_message
    \o (IF Truthy(context)
        THEN << "\n\n" >> \o << ContextHeader >> \o Get(context)
        ELSE << >>)

\* lines 355-362
UserPrompt(user_message, context, username) ==
    (IF Truthy(context)
     THEN << ContextHeader >> \o Get(context) \o << "\n\n" >>
     ELSE << >>)
    \o username \o << ": " >> \o user_message

\* _build_prompt raises (AttributeError on .get) when system_prompt is
\* not a mapping.
BuildPromptRaises(config) ==
    ~IsNone(config.system_prompt) /\ Get(config.system_prompt).kind # "mapping"

\* ------------------------------------------------------ generate_response
\* lines 388-392: the greeting of the init turn
InitMessage(config) ==
    LET bot_name == GetOr(config.name, << "bot" >>)
        description == GetOr(config.description, << >>)
    IN  << "Hi! I am " >> \o bot_name \o << "." >>
        \o (IF description # << >> THEN << "\n" >> \o description ELSE << >>)

\* line 466: the fixed reply of the catch-all handler
FallbackReply == << "Sorry, a temporary error occurred. Please try again." >>

\* line 404: the threshold generate_response searches with
DefaultThreshold == Rat(45, 100)

\* line 405: top_k
TopK == 5

\* ------------------------------------------------------------ the inputs
Threads == { "t1", "t2" }
SessionIds == { "a", "b" }
UserMessages ==
    { << "i", "n", "i", "t" >>,
      << " ", "I", "n", "i", "T", "\n" >>,
      << "h", "i" >> }
Usernames == { << "Alice" >> }

Cand(doc, dist, meta) == [ doc |-> doc, dist |-> dist, meta |-> meta ]

\* What collection.query does in a generate_response call: it raises
\* (None) or returns one of these candidate lists.
CallQueryResults ==
    { None,
      Some(QueryResult(<< >>)),
      Some(QueryResult(<< Cand(<< "docA" >>, Rat(5, 4), "m1"),
                          Cand(<< "docA" >>, Rat(6, 5), "m2") >>)) }

\* ------------------------------------------------------------- the state
VARIABLES
    config,         \* self.config
    collection,     \* self.collection: None or Some("rag_collection")
    message_store,  \* self.message_store: session id -> None (no entry)
                    \* or Some(h), the history object the entry holds
    histories,      \* the InMemoryChatMessageHistory objects, by number:
                    \* histories[h] is the .messages list of object h
    frame,          \* per caller: the locals of its generate_response call
    calls,          \* calls made so far; the k-th call is call k
    obs,            \* per caller: what its current call has done so far
                    \* (its number, the provider calls it made, the exception
                    \* a handler caught, the messages it appended) and the
                    \* session's history as it was when the call began
    log,            \* per session id: the calls that returned, in order,
                    \* each with how it returned
    search_in,      \* retrieval specification: the arguments of one search
    search_out,     \* retrieval specification: what the search returned
    startup,        \* what construction finds: the configuration file, the
                    \* OPENAI_API_KEY variable, the vector index on disk
    chatbot_service, \* the module global _chatbot_service: None or Some(i),
                    \* the i-th ChatbotService object constructed
    instances,      \* the ChatbotService objects constructed so far
    getter,         \* per caller: its position in get_chatbot_service
    gets,           \* get_chatbot_service calls made so far
    prompt_in,      \* prompt specification: the arguments of _build_prompt
    prompt_out,     \* prompt specification: what _build_prompt returned
    convert_in,     \* conversion specification: two distances of candidates
    convert_out     \* conversion specification: their similarities

vars == << config, collection, message_store, histories, frame, calls, obs,
           log, search_in, search_out, startup, chatbot_service, instances,
           getter, gets, prompt_in, prompt_out, convert_in, convert_out >>

service == << config, collection >>
store == << message_store, histories >>
conversion == << convert_in, convert_out >>
retrieval == << search_in, search_out, conversion >>
process == << startup, chatbot_service, instances, getter, gets >>
prompting == << prompt_in, prompt_out >>

\* ------------------------------------------------------------- messages
\* langchain_core.messages: SystemMessage, HumanMessage, AIMessage.  call
\* is the call that constructed the object.
Message(type, content, call) == [ type |-> type, content |-> content, call |-> call ]

\* The content the language model answers call k with.
ReplyOf(k) == << "reply ", ToString(k) >>

IdleFrame ==
    [ pc |-> "idle", user_message |-> << >>, username |-> << >>,
      session_id |-> "", context |-> None, system_prompt |-> << >>,
      user_prompt |-> << >>, session_history |-> None, messages |-> << >>,
      reply |-> << >>, result |-> None ]

IdleObs ==
    [ call |-> 0, n_embed |-> 0, n_query |-> 0, n_llm |-> 0,
      caught |-> "none", raised |-> "none", appended |-> 0,
      before |-> << >> ]

\* The messages of the history the store holds for a session id (none when
\* the store has no history for it).
InStore(s) == ~IsNone(message_store[s])

HistoryOf(s) == IF InStore(s) THEN histories[Get(message_store[s])] ELSE << >>

\* A thread runs a call from its entry until it has returned; the locals
\* and the result of a returned call stay until the thread's next call.
Active(t) == frame[t].pc \notin { "idle", "done" }

ThreadNo(t) == IF t = "t1" THEN 1 ELSE 2

\* ------------------------------------------------ the service, constructed
\* The configuration file as construction finds it: not there, there but
\* not parseable as JSON, or there holding a document.
FileMissing == [ state |-> "missing", document |-> None ]
FileMalformed == [ state |-> "malformed", document |-> None ]
FileHolding(document) == [ state |-> "document", document |-> Some(document) ]

\* A ChatbotService object: the fields __init__ sets from what it finds.
Service(cfg, coll) == [ config |-> cfg, collection |-> coll ]

IdleGetter == [ pc |-> "idle", built |-> 0, result |-> None ]

\* The process once get_chatbot_service has constructed the service from
\* a configuration document: the state the calls to it start from.
Started ==
    /\ startup = [ config_file |-> FileHolding(config), api_key |-> TRUE,
                   chroma_ok |-> ~IsNone(collection) ]
    /\ instances = << Service(config, collection) >>
    /\ chatbot_service = Some(1)
    /\ getter = [ t \in Threads |-> IdleGetter ]
    /\ gets = 0

\* No conversion of a distance on its own is under way.
NoConvert ==
    /\ convert_in = None
    /\ convert_out = None

\* No call of _build_prompt on its own is under way.
NoPrompt ==
    /\ prompt_in = None
    /\ prompt_out = None

Init ==
    /\ config \in { FullConfig, BadShapeConfig }
    /\ collection \in { None, Some("rag_collection") }
    /\ message_store = [ s \in SessionIds |-> None ]
    /\ histories = << >>
    /\ frame = [ t \in Threads |-> IdleFrame ]
    /\ calls = 0
    /\ obs = [ t \in Threads |-> IdleObs ]
    /\ log = [ s \in SessionIds |-> << >> ]
    /\ search_in = None
    /\ search_out = None
    /\ NoConvert
    /\ Started
    /\ NoPrompt

\* ---------------------------------------------- generate_response, steps
\* A call returns `result` to its caller; the log records it.
Returned(t, kind, result) ==
    /\ frame' = [ frame EXCEPT ![t].pc = "done", ![t].result = Some(result) ]
    /\ log' = [ log EXCEPT ![frame[t].session_id] =
                  Append(@, [ call |-> obs[t].call, kind |-> kind ]) ]

\* Mutant: the handler is missing; the exception leaves the call.
FallbackEscapes(t, what) ==
    /\ frame' = [ frame EXCEPT ![t].pc = "done", ![t].result = None ]
    /\ log' = [ log EXCEPT ![frame[t].session_id] =
                  Append(@, [ call |-> obs[t].call, kind |-> "fallback" ]) ]
    /\ obs' = [ obs EXCEPT ![t].raised = what ]

\* lines 461-468: the catch-all handler
Fallback(t, what) ==
    /\ Returned(t, "fallback", [ reply |-> FallbackReply, image |-> None ])
    /\ obs' = [ obs EXCEPT ![t].raised = what ]

\* A caller calls generate_response(user_message, username, session_id);
\* the call runs on the first free thread.  Lines 382-399: the init turn
\* returns the greeting at once, any other turn goes on to the search.
Enter(t, limit) ==
    /\ ~Active(t)
    /\ \A x \in Threads : ThreadNo(x) < ThreadNo(t) => Active(x)
    /\ calls < limit
    /\ \E m \in UserMessages, u \in Usernames, s \in SessionIds :
          LET entered == [ IdleFrame EXCEPT !.user_message = m,
                                            !.username = u,
                                            !.session_id = s ]
          IN  /\ IF IsInit(m)
                 THEN /\ frame' = [ frame EXCEPT ![t] =
                                      [ entered EXCEPT
                                          !.pc = "done",
                                          !.result = Some([ reply |-> InitMessage(config),
                                                            image |-> None ]) ] ]
                      /\ log' = [ log EXCEPT ![s] =
                                    Append(@, [ call |-> calls + 1, kind |-> "init" ]) ]
                 ELSE /\ frame' = [ frame EXCEPT ![t] = [ entered EXCEPT !.pc = "search" ] ]
                      /\ UNCHANGED log
              /\ obs' = [ obs EXCEPT ![t] = [ IdleObs EXCEPT !.call = calls + 1,
                                                            !.before = HistoryOf(s) ] ]
    /\ calls' = calls + 1
    /\ UNCHANGED << service, store, retrieval, process,
                 prompting >>

\* Mutant: the embedding call stands outside the try of _search_similar,
\* so that its error reaches the catch-all handler.
SearchPropagates(t) ==
    /\ frame[t].pc = "search"
    /\ \E embed_ok \in BOOLEAN, query_result \in CallQueryResults :
          LET o == SearchSimilar(collection, embed_ok, query_result,
                                 DefaultThreshold)
          IN  IF o.caught = "embedding"
              THEN /\ Returned(t, "fallback",
                               [ reply |-> FallbackReply, image |-> None ])
                   /\ obs' = [ obs EXCEPT ![t].n_embed = @ + 1,
                                          ![t].caught = "embedding",
                                          ![t].raised = "embedding" ]
              ELSE /\ frame' = [ frame EXCEPT ![t].pc = "build",
                                              ![t].context = o.found.document ]
                   /\ obs' = [ obs EXCEPT ![t].n_embed = @ + o.n_embed,
                                          ![t].n_query = @ + o.n_query,
                                          ![t].caught = o.caught ]
                   /\ UNCHANGED log
    /\ UNCHANGED << service, store, calls, retrieval, process,
                 prompting >>

\* Mutant: the index query stands outside the try of _search_similar, so
\* that its error reaches the catch-all handler.
SearchQueryPropagates(t) ==
    /\ frame[t].pc = "search"
    /\ \E embed_ok \in BOOLEAN, query_result \in CallQueryResults :
          LET o == SearchSimilar(collection, embed_ok, query_result,
                                 DefaultThreshold)
          IN  IF o.caught = "query"
              THEN /\ Returned(t, "fallback",
                               [ reply |-> FallbackReply, image |-> None ])
                   /\ obs' = [ obs EXCEPT ![t].n_embed = @ + 1,
                                          ![t].n_query = @ + 1,
                                          ![t].caught = "query",
                                          ![t].raised = "query" ]
              ELSE /\ frame' = [ frame EXCEPT ![t].pc = "build",
                                              ![t].context = o.found.document ]
                   /\ obs' = [ obs EXCEPT ![t].n_embed = @ + o.n_embed,
                                          ![t].n_query = @ + o.n_query,
                                          ![t].caught = o.caught ]
                   /\ UNCHANGED log
    /\ UNCHANGED << service, store, calls, retrieval, process,
                 prompting >>

\* lines 402-406
Search(t) ==
    /\ frame[t].pc = "search"
    /\ \E embed_ok \in BOOLEAN, query_result \in CallQueryResults :
          LET o == SearchSimilar(collection, embed_ok, query_result,
                                 DefaultThreshold)
          IN  /\ frame' = [ frame EXCEPT ![t].pc = "build",
                                         ![t].context = o.found.document ]
              /\ obs' = [ obs EXCEPT ![t].n_embed = @ + o.n_embed,
                                     ![t].n_query = @ + o.n_query,
                                     ![t].caught = o.caught ]
    /\ UNCHANGED << service, store, calls, log, retrieval, process,
                 prompting >>

\* lines 410-414
BuildPrompt(t) ==
    /\ frame[t].pc = "build"
    /\ IF BuildPromptRaises(config)
       THEN Fallback(t, "prompt")
       ELSE /\ frame' = [ frame EXCEPT
                            ![t].pc = "check_store",
                            ![t].system_prompt = SystemPrompt(config),
                            ![t].user_prompt =
                                UserPrompt(frame[t].user_message,
                                           frame[t].context, frame[t].username) ]
            /\ UNCHANGED << obs, log >>
    /\ UNCHANGED << service, store, calls, retrieval, process,
                 prompting >>

\* line 428: if session_id not in self.message_store
CheckStore(t) ==
    /\ frame[t].pc = "check_store"
    /\ frame' = [ frame EXCEPT ![t].pc =
                    IF InStore(frame[t].session_id) THEN "get" ELSE "create" ]
    /\ UNCHANGED << service, store, calls, obs, log, retrieval, process,
                 prompting >>

\* line 429: self.message_store[session_id] = InMemoryChatMessageHistory()
CreateHistory(t) ==
    /\ frame[t].pc = "create"
    /\ histories' = Append(histories, << >>)
    /\ message_store' = [ message_store EXCEPT
                            ![frame[t].session_id] = Some(Len(histories) + 1) ]
    /\ frame' = [ frame EXCEPT ![t].pc = "get" ]
    /\ UNCHANGED << service, calls, obs, log, retrieval, process,
                 prompting >>

\* line 431: session_history = self.message_store[session_id]
GetHistory(t) ==
    /\ frame[t].pc = "get"
    /\ frame' = [ frame EXCEPT
                    ![t].pc = "assemble",
                    ![t].session_history = message_store[frame[t].session_id] ]
    /\ UNCHANGED << service, store, calls, obs, log, retrieval, process,
                 prompting >>

\* lines 434-440
Assemble(t) ==
    /\ frame[t].pc = "assemble"
    /\ frame' = [ frame EXCEPT
                    ![t].pc = "invoke",
                    ![t].messages =
                        << Message("system", frame[t].system_prompt, obs[t].call) >>
                        \o histories[Get(frame[t].session_history)]
                        \o << Message("human", frame[t].user_prompt, obs[t].call) >> ]
    /\ UNCHANGED << service, store, calls, obs, log, retrieval, process,
                 prompting >>

\* Mutant: the user message is stored before the model is called.
InvokeLLMAfterPersist(t) ==
    /\ frame[t].pc = "invoke"
    /\ histories' = [ histories EXCEPT ![Get(frame[t].session_history)] =
                        Append(@, Message("human", frame[t].user_prompt, obs[t].call)) ]
    /\ \E ok \in BOOLEAN :
          IF ok
          THEN /\ frame' = [ frame EXCEPT ![t].pc = "add_ai",
                                          ![t].messages = << >>,
                                          ![t].reply = ReplyOf(obs[t].call) ]
               /\ obs' = [ obs EXCEPT ![t].n_llm = @ + 1, ![t].appended = @ + 1 ]
               /\ UNCHANGED log
          ELSE /\ Returned(t, "fallback",
                           [ reply |-> FallbackReply, image |-> None ])
               /\ obs' = [ obs EXCEPT ![t].n_llm = @ + 1, ![t].raised = "llm" ]
    /\ UNCHANGED << service, message_store, calls, retrieval, process,
                 prompting >>

\* lines 445-446: self.llm.invoke(messages) answers or raises
InvokeLLM(t) ==
    /\ frame[t].pc = "invoke"
    /\ \E ok \in BOOLEAN :
          IF ok
          THEN /\ frame' = [ frame EXCEPT ![t].pc = "add_user",
                                          ![t].messages = << >>,
                                          ![t].reply = ReplyOf(obs[t].call) ]
               /\ obs' = [ obs EXCEPT ![t].n_llm = @ + 1 ]
               /\ UNCHANGED log
          ELSE /\ Returned(t, "fallback",
                           [ reply |-> FallbackReply, image |-> None ])
               /\ obs' = [ obs EXCEPT ![t].n_llm = @ + 1, ![t].raised = "llm" ]
    /\ UNCHANGED << service, store, calls, retrieval, process,
                 prompting >>

\* Mutant: the new message goes to the front of the list.
AddMessageFront(h, message) == [ histories EXCEPT ![h] = << message >> \o @ ]

\* Mutant: one list of messages shared by every history object.
AddMessageShared(h, message) ==
    [ x \in DOMAIN histories |-> Append(histories[x], message) ]

\* history.add_user_message / add_ai_message: append one message object
AddMessage(h, message) == [ histories EXCEPT ![h] = Append(@, message) ]

\* line 452: session_history.add_user_message(user_prompt)
AddUser(t) ==
    /\ frame[t].pc = "add_user"
    /\ \E ok \in BOOLEAN :
          IF ok
          THEN /\ histories' = AddMessage(Get(frame[t].session_history),
                                  Message("human", frame[t].user_prompt, obs[t].call))
               /\ frame' = [ frame EXCEPT ![t].pc = "add_ai" ]
               /\ obs' = [ obs EXCEPT ![t].appended = @ + 1 ]
               /\ UNCHANGED log
          ELSE /\ Fallback(t, "add_user")
               /\ UNCHANGED histories
    /\ UNCHANGED << service, message_store, calls, retrieval, process,
                 prompting >>

\* lines 453-459: session_history.add_ai_message(reply), then the return
AddAi(t) ==
    /\ frame[t].pc = "add_ai"
    /\ \E ok \in BOOLEAN :
          IF ok
          THEN /\ histories' = AddMessage(Get(frame[t].session_history),
                                  Message("ai", frame[t].reply, obs[t].call))
               /\ Returned(t, "reply", [ reply |-> frame[t].reply, image |-> None ])
               /\ obs' = [ obs EXCEPT ![t].appended = @ + 1 ]
          ELSE /\ Fallback(t, "add_ai")
               /\ UNCHANGED histories
    /\ UNCHANGED << service, message_store, calls, retrieval, process,
                 prompting >>

\* Callers are concurrent (one thread per request): a call may begin
\* while another is running.
Call(t) == Enter(t, MaxCalls)

Next ==
    \E t \in Threads :
        \/ Call(t)
        \/ Search(t)
        \/ BuildPrompt(t)
        \/ CheckStore(t)
        \/ CreateHistory(t)
        \/ GetHistory(t)
        \/ Assemble(t)
        \/ InvokeLLM(t)
        \/ AddUser(t)
        \/ AddAi(t)

Spec == Init /\ [][Next]_vars

\* One caller at a time: a call begins only when no other call is running.
SeqCall(t) == (\A x \in Threads : ~Active(x)) /\ Enter(t, MaxSeqCalls)

SeqNext ==
    \E t \in Threads :
        \/ SeqCall(t)
        \/ Search(t)
        \/ BuildPrompt(t)
        \/ CheckStore(t)
        \/ CreateHistory(t)
        \/ GetHistory(t)
        \/ Assemble(t)
        \/ InvokeLLM(t)
        \/ AddUser(t)
        \/ AddAi(t)

SpecSeq == Init /\ [][SeqNext]_vars

\* ------------------------------------------------- the calls: the claims
Done(t) == frame[t].pc = "done"
Result(t) == Get(frame[t].result)
Session(t) == frame[t].session_id
FallbackResult == [ reply |-> FallbackReply, image |-> None ]

IsText(x) == x \in Seq(STRING)

\* The call of thread t returned the reply of the model.
RepliedNormally(t) ==
    /\ Done(t)
    /\ obs[t].raised = "none"
    /\ obs[t].n_llm = 1
    /\ frame[t].result = Some([ reply |-> ReplyOf(obs[t].call), image |-> None ])

\* Some history object holds a message that call k constructed.
Stored(k) ==
    \E h \in 1..Len(histories) : \E i \in 1..Len(histories[h]) :
        histories[h][i].call = k

\* C1: a call that has ended has returned a result to its caller: a mapping
\* of a text reply and image None; the reply is the fixed fallback text when
\* an exception reached the handler of generate_response (from prompt
\* building, the model call or either append), and else the greeting or the
\* model's reply.
C1_NeverRaises ==
    \A t \in Threads :
        /\ obs[t].raised # "none" => Done(t)
        /\ Done(t) =>
              /\ ~IsNone(frame[t].result)
              /\ Result(t).image = None
              /\ IsText(Result(t).reply)
              /\ obs[t].raised # "none" => Result(t).reply = FallbackReply
              /\ obs[t].raised = "none" =>
                    Result(t).reply \in { InitMessage(config), ReplyOf(obs[t].call) }

\* C1 witness: a call returned the fallback after its second append raised.
C1_Witness ==
    \E t \in Threads :
        Done(t) /\ obs[t].raised = "add_ai" /\ frame[t].result = Some(FallbackResult)

\* Thread t has the model's reply and has not finished its two appends.
Appending(t) == frame[t].pc \in { "add_user", "add_ai" }

\* C2: two calls on the same session id are never both between their read
\* of the history and the end of their appends (each has read the history
\* before the other's appends were complete, and both go on to append).
C2_AtomicReadAppend ==
    \A t, u \in Threads :
        (t # u /\ Session(t) = Session(u)) => ~(Appending(t) /\ Appending(u))

\* C3: with one caller at a time, a call whose model invocation raised
\* returns the fallback with image None, has stored no message, and leaves
\* the session's history as it was when the call began; and a message of a
\* call is stored only once the model has answered that call.
C3_NoAppendOnModelFailure ==
    \A t \in Threads :
        /\ (Done(t) /\ obs[t].raised = "llm") =>
              /\ frame[t].result = Some(FallbackResult)
              /\ ~Stored(obs[t].call)
              /\ HistoryOf(Session(t)) = obs[t].before
        /\ (obs[t].call > 0 /\ Stored(obs[t].call)) =>
              /\ obs[t].n_llm = 1
              /\ obs[t].raised # "llm"
              /\ frame[t].reply = ReplyOf(obs[t].call)

\* C3 witness: the model raised in a call on a session whose history already
\* held a turn, and the call returned.
C3_Witness ==
    \E t \in Threads :
        Done(t) /\ obs[t].raised = "llm" /\ Len(obs[t].before) = 2

\* The calls on session s that returned the model's reply, in order.
Turns(s) == SelectSeq(log[s], LAMBDA e : e.kind = "reply")
\* Every call on session s so far returned the greeting or the model's reply.
Clean(s) == \A i \in 1..Len(log[s]) : log[s][i].kind \in { "init", "reply" }
Quiet(s) == \A t \in Threads : Active(t) => Session(t) # s

\* C4: with one caller at a time, on a session whose calls all succeeded,
\* the history after n non-init calls has 2n entries: for the i-th of these
\* calls its user message at 2i-1 and the model's reply to it at 2i; the
\* call that just returned finds its user prompt and its reply as the last
\* two entries.
C4_TwoEntriesPerTurn ==
    /\ \A s \in SessionIds :
          (Clean(s) /\ Quiet(s)) =>
              /\ Len(HistoryOf(s)) = 2 * Len(Turns(s))
              /\ \A i \in 1..Len(Turns(s)) :
                    /\ HistoryOf(s)[2 * i - 1].type = "human"
                    /\ HistoryOf(s)[2 * i - 1].call = Turns(s)[i].call
                    /\ HistoryOf(s)[2 * i] =
                          Message("ai", ReplyOf(Turns(s)[i].call), Turns(s)[i].call)
                    /\ i > 1 => Turns(s)[i - 1].call < Turns(s)[i].call
    /\ \A t \in Threads :
          (RepliedNormally(t) /\ Clean(Session(t))) =>
              LET H == HistoryOf(Session(t))
              IN  /\ Len(H) >= 2
                  /\ H[Len(H) - 1] = Message("human", frame[t].user_prompt, obs[t].call)
                  /\ H[Len(H)] = Message("ai", Result(t).reply, obs[t].call)

\* C4 witness: the second successful call on a session has returned and the
\* session's history has four entries.
C4_Witness ==
    \E t \in Threads :
        /\ RepliedNormally(t)
        /\ Clean(Session(t))
        /\ Len(Turns(Session(t))) = 2
        /\ Len(HistoryOf(Session(t))) = 4

\* The calls made on session s: those that returned and those running.
CallsOn(s) ==
    { log[s][i].call : i \in 1..Len(log[s]) }
    \cup { obs[t].call : t \in { x \in Threads : Session(x) = s /\ obs[x].call > 0 } }

\* Every message of the history of a session, and every message a call on
\* that session has read into its model input, was made by a call on it.
OwnMessagesOnly ==
    /\ \A s \in SessionIds : \A i \in 1..Len(HistoryOf(s)) :
          HistoryOf(s)[i].call \in CallsOn(s)
    /\ \A t \in Threads : \A i \in 1..Len(frame[t].messages) :
          frame[t].messages[i].call \in CallsOn(Session(t))

\* Thread t takes this step.
StepOf(t) == frame'[t] # frame[t] \/ obs'[t] # obs[t]

\* C5: a step of a call on session a leaves the store's entry and the
\* history of every other session b as they were, and no history, and no
\* model input read from it, ever holds a message of a call on another
\* session.
C5_SessionIsolation ==
    [][ /\ \A t \in Threads : StepOf(t) =>
              \A b \in SessionIds \ { frame'[t].session_id } :
                  /\ message_store'[b] = message_store[b]
                  /\ HistoryOf(b)' = HistoryOf(b)
        /\ OwnMessagesOnly' ]_vars

\* C5 witness: a call on one session has assembled its model input from an
\* empty history while the other session's history holds a turn.
C5_Witness ==
    \E t \in Threads : \E s \in SessionIds :
        /\ frame[t].pc = "invoke"
        /\ s # Session(t)
        /\ Len(frame[t].messages) = 2
        /\ Len(HistoryOf(s)) = 2

\* The spellings of the init message among the inputs.
InitSpellings == { << "i", "n", "i", "t" >>, << " ", "I", "n", "i", "T", "\n" >> }

Contains(text, part) ==
    \E i \in 1..(Len(text) - Len(part) + 1) :
        SubSeq(text, i, i + Len(part) - 1) = part

PersonaName == IF IsNone(config.name) THEN << "bot" >> ELSE Get(config.name)

\* C6: a call whose message is a spelling of "init" returns at once a
\* greeting that contains the persona's name, with no embedding call, no
\* index query and no model call, and leaves the message store and every
\* history object as they were.
C6_InitTouchesNothing ==
    [][ \A t \in Threads :
          (obs'[t].call # obs[t].call /\ frame'[t].user_message \in InitSpellings) =>
              /\ frame'[t].pc = "done"
              /\ ~IsNone(frame'[t].result)
              /\ Contains(Get(frame'[t].result).reply, PersonaName)
              /\ Get(frame'[t].result).image = None
              /\ obs'[t].n_embed = 0 /\ obs'[t].n_query = 0 /\ obs'[t].n_llm = 0
              /\ message_store' = message_store
              /\ histories' = histories ]_vars

\* C6 witness: an init call written with blanks and capitals returned its
\* greeting on a session that has no history in the store.
C6_Witness ==
    \E t \in Threads :
        /\ Done(t)
        /\ frame[t].user_message = << " ", "I", "n", "i", "T", "\n" >>
        /\ frame[t].result = Some([ reply |-> InitMessage(config), image |-> None ])
        /\ ~InStore(Session(t))
        /\ \E s \in SessionIds : Len(HistoryOf(s)) = 2

C8_NoIndexNoFallback ==
    [][ IsNone(collection) =>
          /\ IsNone(collection')
          /\ \A t \in Threads :
                /\ obs'[t].n_embed = 0 /\ obs'[t].n_query = 0
                /\ obs'[t].caught = "none"
                /\ IsNone(frame'[t].context)
                /\ (Done(t)' /\ obs'[t].raised = "none" /\ obs'[t].n_llm = 1) =>
                      /\ RepliedNormally(t)'
                      /\ obs'[t].appended = 2
                /\ (Done(t)' /\ Get(frame'[t].result).reply = FallbackReply) =>
                      obs'[t].raised \in { "prompt", "llm", "add_user", "add_ai" } ]_vars

\* C8 witness: without an index a call returned the model's reply and
\* appended its turn.
C8_Witness ==
    \E t \in Threads :
        /\ IsNone(collection)
        /\ RepliedNormally(t)
        /\ obs[t].appended = 2
        /\ Len(HistoryOf(Session(t))) = 2

\* ------------------------------------------- the retrieval specification
\* _search_similar on its own: every candidate list of at most MaxCands
\* (and at most top_k) candidates, in every order, under several
\* thresholds, with the embedding provider and the index answering or
\* raising.
Thresholds == { Rat(0, 1), Rat(45, 100), Rat(1, 1) }

CandidateLists ==
    UNION { [ 1..k -> Candidates ] : k \in 0..Min(MaxCands, TopK) }

SearchInputs ==
    [ embed_ok : BOOLEAN,
      query_result : { None } \cup { Some(QueryResult(c)) : c \in CandidateLists },
      threshold : Thresholds ]

SearchInit ==
    /\ config = FullConfig
    /\ collection \in { None, Some("rag_collection") }
    /\ message_store = [ s \in SessionIds |-> None ]
    /\ histories = << >>
    /\ frame = [ t \in Threads |-> IdleFrame ]
    /\ calls = 0
    /\ obs = [ t \in Threads |-> IdleObs ]
    /\ log = [ s \in SessionIds |-> << >> ]
    /\ search_in \in { Some(i) : i \in SearchInputs }
    /\ search_out = None
    /\ NoConvert
    /\ Started
    /\ NoPrompt

\* self._search_similar(query, threshold, top_k)
RunSearch ==
    /\ search_out = None
    /\ search_out' = Some(SearchSimilar(collection, Get(search_in).embed_ok,
                                        Get(search_in).query_result,
                                        Get(search_in).threshold))
    /\ UNCHANGED << service, store, frame, calls, obs, log, search_in,
                 conversion, process, prompting >>

SpecSearch == SearchInit /\ [][RunSearch]_vars

\* ------------------------------------------------- retrieval: the claims
\* The candidates the index returned to the search (none when the search
\* did not get an answer from the index).
Returned_documents ==
    IF ~IsNone(search_in) /\ ~IsNone(Get(search_in).query_result)
    THEN Get(Get(search_in).query_result).documents ELSE << >>
Returned_distances ==
    IF ~IsNone(search_in) /\ ~IsNone(Get(search_in).query_result)
    THEN Get(Get(search_in).query_result).distances ELSE << >>
Returned_metadatas ==
    IF ~IsNone(search_in) /\ ~IsNone(Get(search_in).query_result)
    THEN Get(Get(search_in).query_result).metadatas ELSE << >>

\* 1/(1 + n/d) >= a/b, in integers
MeetsThreshold(dist, threshold) ==
    dist[2] * threshold[2] >= threshold[1] * (dist[2] + dist[1])

\* 1/(1 + n1/d1) >= 1/(1 + n2/d2), in integers
AtLeastAsSimilar(dist1, dist2) ==
    dist1[2] * (dist2[2] + dist2[1]) >= dist2[2] * (dist1[2] + dist1[1])

Qualifies(i) == MeetsThreshold(Returned_distances[i], Get(search_in).threshold)

\* The search reached its loop: it had an index, an embedding and an answer.
SearchAnswered ==
    /\ ~IsNone(search_out)
    /\ ~IsNone(collection)
    /\ Get(search_in).embed_ok
    /\ ~IsNone(Get(search_in).query_result)

Found == Get(search_out).found

\* Candidate i is what the search returned.
IsCandidate(found, i) ==
    /\ found.document = Some(Returned_documents[i])
    /\ found.metadata = Some(Returned_metadatas[i])
    /\ RatEQ(Get(found.similarity),
             Rat(Returned_distances[i][2],
                 Returned_distances[i][2] + Returned_distances[i][1]))

\* C9: the document a search returns, if any, is one of the candidates the
\* index returned, carries similarity 1/(1+distance) and that similarity is
\* at least the threshold; when the index returns no candidate, or none at
\* or above the threshold, the search returns absent.
C9_ReturnedMeetsThreshold ==
    ~IsNone(search_out) =>
        /\ ~IsNone(Found.document) =>
              /\ SearchAnswered
              /\ \E i \in 1..Len(Returned_documents) :
                    IsCandidate(Found, i) /\ Qualifies(i)
        /\ (\A i \in 1..Len(Returned_documents) : ~Qualifies(i)) => Found = Absent

\* C9 witness: a search returned a document although the index also returned
\* a candidate below the threshold, before it in the result order.
C9_Witness ==
    /\ SearchAnswered
    /\ ~IsNone(Found.document)
    /\ \E i, j \in 1..Len(Returned_documents) :
          i < j /\ ~Qualifies(i) /\ IsCandidate(Found, j)

\* Candidate i is the first of the candidates at or above the threshold
\* that no other such candidate beats.
FirstBest(i) ==
    /\ Qualifies(i)
    /\ \A j \in 1..Len(Returned_documents) :
          Qualifies(j) => AtLeastAsSimilar(Returned_distances[i], Returned_distances[j])
    /\ \A j \in 1..(i - 1) :
          ~(Qualifies(j) /\ AtLeastAsSimilar(Returned_distances[j], Returned_distances[i]))

\* C10: the document a search returns, if any, is the candidate of highest
\* similarity among those at or above the threshold, wherever it stands in
\* the result order, and the first of them in result order when several
\* share that similarity.
C10_ReturnsFirstBest ==
    (~IsNone(search_out) /\ ~IsNone(Found.document)) =>
        \E i \in 1..Len(Returned_documents) : FirstBest(i) /\ IsCandidate(Found, i)

\* C10 witness: two candidates with different metadata share the highest
\* similarity, a candidate of lower similarity at or above the threshold
\* precedes them, and the search returned the first of the two.
C10_Witness ==
    /\ SearchAnswered
    /\ ~IsNone(Found.document)
    /\ \E i, j, k \in 1..Len(Returned_documents) :
          /\ i < j /\ j < k
          /\ Qualifies(i)
          /\ ~AtLeastAsSimilar(Returned_distances[i], Returned_distances[j])
          /\ FirstBest(j)
          /\ AtLeastAsSimilar(Returned_distances[k], Returned_distances[j])
          /\ Returned_metadatas[j] # Returned_metadatas[k]
          /\ IsCandidate(Found, j)
          /\ ~IsCandidate(Found, k)

\* --------------------------------------------------- get_chatbot_service
\* The specification of construction: callers on two threads ask for the
\* service in a process that has not constructed it yet.
MaxGets == 3

\* A variant of _load_config that answers an unparseable file with the
\* default persona.
LoadConfigLenient(file) ==
    IF file.state = "document"
    THEN [ raised |-> FALSE, config |-> Some(Get(file.document)) ]
    ELSE [ raised |-> FALSE, config |-> Some(DefaultConfig) ]

\* self._load_config(): the parsed document; the default persona when the
\* file is not there; the JSON error, raised again, when it does not parse.
LoadConfig(file) ==
    IF file.state = "document"
    THEN [ raised |-> FALSE, config |-> Some(Get(file.document)) ]
    ELSE IF file.state = "missing"
    THEN [ raised |-> FALSE, config |-> Some(DefaultConfig) ]
    ELSE [ raised |-> TRUE, config |-> None ]

\* ChatbotService(): __init__ loads the configuration, requires the API
\* key, and opens the index, going on without one when that fails.
NewService(env) ==
    LET loaded == LoadConfig(env.config_file) IN
    IF loaded.raised THEN [ raised |-> "config", service |-> None ]
    ELSE IF ~env.api_key THEN [ raised |-> "api_key", service |-> None ]
    ELSE [ raised |-> "none",
           service |-> Some(Service(Get(loaded.config),
                                    IF env.chroma_ok THEN Some("rag_collection")
                                    ELSE None)) ]

ConfigFiles ==
    { FileMissing, FileMalformed, FileHolding(FullConfig),
      FileHolding(BadShapeConfig) }

Startups == [ config_file : ConfigFiles, api_key : BOOLEAN, chroma_ok : BOOLEAN ]

Getting(t) == getter[t].pc \in { "construct", "assign", "return" }

\* The process before the first get_chatbot_service call.  No call of
\* generate_response is made in this specification.
SingletonInit ==
    /\ startup \in Startups
    /\ chatbot_service = None
    /\ instances = << >>
    /\ getter = [ t \in Threads |-> IdleGetter ]
    /\ gets = 0
    /\ config = DefaultConfig
    /\ collection = None
    /\ message_store = [ s \in SessionIds |-> None ]
    /\ histories = << >>
    /\ frame = [ t \in Threads |-> IdleFrame ]
    /\ calls = 0
    /\ obs = [ t \in Threads |-> IdleObs ]
    /\ log = [ s \in SessionIds |-> << >> ]
    /\ search_in = None
    /\ search_out = None
    /\ NoConvert
    /\ NoPrompt

GetterUnchanged ==
    UNCHANGED << service, store, frame, calls, obs, log, retrieval, prompting,
                 startup >>

\* get_chatbot_service(): the call and its test of the global.
GetService(t) ==
    /\ ~Getting(t)
    /\ gets < MaxGets
    /\ gets' = gets + 1
    /\ getter' = [ getter EXCEPT ![t] =
                     [ pc |-> IF IsNone(chatbot_service) THEN "construct"
                              ELSE "return",
                       built |-> 0, result |-> None ] ]
    /\ UNCHANGED << chatbot_service, instances >>
    /\ GetterUnchanged

\* ChatbotService(): the right-hand side of the assignment.  An exception
\* of the constructor leaves get_chatbot_service, the global unassigned.
Construct(t) ==
    /\ getter[t].pc = "construct"
    /\ LET new == NewService(startup) IN
         IF new.raised # "none"
         THEN /\ getter' = [ getter EXCEPT ![t].pc = "raised" ]
              /\ UNCHANGED instances
         ELSE /\ instances' = Append(instances, Get(new.service))
              /\ getter' = [ getter EXCEPT ![t].pc = "assign",
                                           ![t].built = Len(instances) + 1 ]
    /\ UNCHANGED << chatbot_service, gets >>
    /\ GetterUnchanged

\* _chatbot_service = <the object constructed>
AssignGlobal(t) ==
    /\ getter[t].pc = "assign"
    /\ chatbot_service' = Some(getter[t].built)
    /\ getter' = [ getter EXCEPT ![t].pc = "return" ]
    /\ UNCHANGED << instances, gets >>
    /\ GetterUnchanged

\* return _chatbot_service
ReturnService(t) ==
    /\ getter[t].pc = "return"
    /\ getter' = [ getter EXCEPT ![t].pc = "got", ![t].result = chatbot_service ]
    /\ UNCHANGED << chatbot_service, instances, gets >>
    /\ GetterUnchanged

SingletonNext ==
    \E t \in Threads :
        \/ GetService(t)
        \/ Construct(t)
        \/ AssignGlobal(t)
        \/ ReturnService(t)

SpecSingleton == SingletonInit /\ [][SingletonNext]_vars

\* C11: the service is constructed at most once and every caller of
\* get_chatbot_service receives that one object, concurrent first calls
\* included.
C11_ConstructedOnce ==
    /\ Len(instances) <= 1
    /\ \A t, u \in Threads :
          (getter[t].pc = "got" /\ getter[u].pc = "got") =>
              getter[t].result = getter[u].result

\* C13: with the configuration file missing every service constructed has
\* the default persona and, the API key being there, no construction
\* fails; with the file unparseable every construction fails, so that no
\* service exists and no caller is given one.
C13_ConfigMissingOrMalformed ==
    /\ startup.config_file = FileMissing =>
          /\ \A i \in 1..Len(instances) : instances[i].config = DefaultConfig
          /\ startup.api_key => \A t \in Threads : getter[t].pc # "raised"
    /\ startup.config_file = FileMalformed =>
          /\ instances = << >>
          /\ IsNone(chatbot_service)
          /\ \A t \in Threads : getter[t].pc \notin { "assign", "return", "got" }

\* C13 witness: the file is missing and a caller has been given a service
\* that has the default persona.
C13_Witness ==
    /\ startup.config_file = FileMissing
    /\ \E t \in Threads :
          /\ getter[t].pc = "got"
          /\ ~IsNone(getter[t].result)
          /\ instances[Get(getter[t].result)].config = DefaultConfig

\* ------------------------------------------ the message store: the claims
IsPrefix(a, b) == Len(a) <= Len(b) /\ SubSeq(b, 1, Len(a)) = a

\* C12: once the store holds a history for a session id, no step replaces
\* it by another object, and the history's content after any step extends
\* its content before the step.
C12_OneGrowingHistory ==
    [][ \A s \in SessionIds :
          InStore(s) =>
              /\ message_store'[s] = message_store[s]
              /\ IsPrefix(HistoryOf(s), HistoryOf(s)') ]_vars

\* The places, over all history objects, of the messages call k constructed.
StoredBy(k) ==
    UNION { { << h, i >> : i \in { j \in DOMAIN histories[h] :
                                     histories[h][j].call = k } } :
            h \in DOMAIN histories }

\* C14: a call that has returned, whatever step of it raised, has appended
\* both of its entries or neither: never exactly one.
C14_AllOrNothing ==
    \A t \in Threads :
        Done(t) =>
            /\ obs[t].appended \in { 0, 2 }
            /\ Cardinality(StoredBy(obs[t].call)) \in { 0, 2 }

\* ------------------------------------------------ model input: the claims
\* Thread t assembles the input of the model in this step.
Assembles(t) == frame[t].pc = "assemble" /\ frame'[t].pc = "invoke"

\* Every stored message is the user prompt of the call that constructed it
\* or the model's reply to that call; none has the system role.
OnlyPromptAndReplyStored ==
    \A h \in DOMAIN histories : \A i \in DOMAIN histories[h] :
        LET m == histories[h][i] IN
        /\ m.type \in { "human", "ai" }
        /\ m.type = "ai" => m.content = ReplyOf(m.call)
        /\ \A t \in Threads :
              obs[t].call = m.call =>
                  /\ m.type = "human" => m.content = frame[t].user_prompt
                  /\ m.type = "ai" => m.content = frame[t].reply
                  /\ (m.type = "ai" /\ RepliedNormally(t)) =>
                        m.content = Result(t).reply

\* C15: the input a call assembles for the model is one system message of
\* the system prompt, then the entries the session's history holds at that
\* moment, in order, then one user message of the rendered user prompt;
\* and the histories hold only user prompts and model replies, the reply
\* stored being the reply returned.
C15_ModelInput ==
    [][ /\ \A t \in Threads :
              Assembles(t) =>
                  frame'[t].messages =
                      << Message("system", SystemPrompt(config), obs[t].call) >>
                      \o HistoryOf(Session(t))
                      \o << Message("human",
                                    UserPrompt(frame[t].user_message,
                                               frame[t].context,
                                               frame[t].username),
                                    obs[t].call) >>
        /\ OnlyPromptAndReplyStored' ]_vars

\* ------------------------------------------- retrieval in a call: claims
\* C16: an error of the index query is caught by the handler of
\* _search_similar: the call has embedded the query and queried the index
\* once, goes on without context, and returns the fallback only when a
\* later step (prompt building, the model call, an append) raises;
\* otherwise it has invoked the model, returned the model's reply and
\* appended the turn.
C16_QueryErrorCaughtBySearch ==
    \A t \in Threads :
        obs[t].caught = "query" =>
            /\ obs[t].n_embed = 1
            /\ obs[t].n_query = 1
            /\ IsNone(frame[t].context)
            /\ obs[t].raised \in { "none", "prompt", "llm", "add_user", "add_ai" }
            /\ (Done(t) /\ obs[t].raised = "none") =>
                  /\ RepliedNormally(t)
                  /\ obs[t].appended = 2
                  /\ Cardinality(StoredBy(obs[t].call)) = 2

\* C16 witness: a call whose index query raised returned the model's reply
\* and appended its turn to the session's history.
C16_Witness ==
    \E t \in Threads :
        /\ obs[t].caught = "query"
        /\ RepliedNormally(t)
        /\ Len(HistoryOf(Session(t))) >= 2
        /\ HistoryOf(Session(t))[Len(HistoryOf(Session(t)))] =
              Message("ai", Result(t).reply, obs[t].call)

\* The call of thread t is not an init call and is past its search.
Searched(t) ==
    /\ frame[t].pc \notin { "idle", "search" }
    /\ ~IsInit(frame[t].user_message)

\* C17: a call calls the embedding provider, queries the index and invokes
\* the model at most once each, whether they answer or fail; with an index
\* available, every call that is not an init call has called the embedding
\* provider once its search is over and, unless that failed, has queried
\* the index.
C17_NoRetryNoCache ==
    \A t \in Threads :
        /\ obs[t].n_embed <= 1
        /\ obs[t].n_query <= 1
        /\ obs[t].n_llm <= 1
        /\ (Searched(t) /\ ~IsNone(collection)) =>
              /\ obs[t].n_embed = 1
              /\ obs[t].n_query = (IF obs[t].caught = "embedding" THEN 0 ELSE 1)

\* C17 witness: a session's second turn repeated the user prompt of its
\* first, and the call of the second turn made its own call to the
\* embedding provider and its own query of the index.
C17_Witness ==
    \E t \in Threads :
        LET H == HistoryOf(Session(t)) IN
        /\ RepliedNormally(t)
        /\ Len(H) = 4
        /\ H[3].content = H[1].content
        /\ H[3].call = obs[t].call
        /\ H[1].call # obs[t].call
        /\ obs[t].n_embed = 1
        /\ obs[t].n_query = 1

\* C18: a search that had an index, an embedding and an answer holding at
\* least one candidate at or above the threshold returns a document,
\* whatever the candidates' texts are, the empty text included.
C18_SelectionComplete ==
    (SearchAnswered /\ \E i \in 1..Len(Returned_documents) : Qualifies(i)) =>
        ~IsNone(Found.document)

\* ------------------------------------------- the shape of a history: claim
\* A history of user and assistant entries in turn, starting with a user
\* entry, each assistant entry the reply to the user entry before it.
Alternates(H) ==
    /\ Len(H) % 2 = 0
    /\ \A i \in DOMAIN H :
          IF i % 2 = 1
          THEN H[i].type = "human"
          ELSE /\ H[i].type = "ai"
               /\ H[i].call = H[i - 1].call
               /\ H[i].content = ReplyOf(H[i - 1].call)

\* Thread t has appended its user entry and not yet its assistant entry.
BetweenAppends(t) == frame[t].pc = "add_ai"

\* C19: whenever no call is between its two appends, every session's
\* history has even length and alternates user and assistant entries, each
\* assistant entry the reply to the user entry before it.
C19_HistoryAlternates ==
    (\A t \in Threads : ~BetweenAppends(t)) =>
        \A s \in SessionIds : Alternates(HistoryOf(s))

\* ----------------------------------------------------------- _build_prompt
\* The specification of prompt building: one _build_prompt call on a
\* service of some persona.  The contexts are those generate_response
\* passes: None, or a document _search_similar returned, which is never
\* the empty text (line 321); the usernames include the default of the
\* parameter.
PromptConfigs ==
    { DefaultConfig, FullConfig, BareConfig, NoRulesConfig, BadShapeConfig }

PromptContexts == { None } \cup { Some(d) : d \in Docs \ { << >> } }

PromptUsernames == Usernames \cup { << "user" >> }

PromptInputs ==
    [ user_message : UserMessages, context : PromptContexts,
      username : PromptUsernames ]

PromptInit ==
    /\ config \in PromptConfigs
    /\ collection = Some("rag_collection")
    /\ message_store = [ s \in SessionIds |-> None ]
    /\ histories = << >>
    /\ frame = [ t \in Threads |-> IdleFrame ]
    /\ calls = 0
    /\ obs = [ t \in Threads |-> IdleObs ]
    /\ log = [ s \in SessionIds |-> << >> ]
    /\ search_in = None
    /\ search_out = None
    /\ NoConvert
    /\ Started
    /\ prompt_in \in { Some(i) : i \in PromptInputs }
    /\ prompt_out = None

\* self._build_prompt(user_message, context, username)
RunBuildPrompt ==
    /\ prompt_out = None
    /\ prompt_out' =
          Some(IF BuildPromptRaises(config)
               THEN [ raised |-> TRUE, system_prompt |-> << >>,
                      user_prompt |-> << >> ]
               ELSE [ raised |-> FALSE,
                      system_prompt |-> SystemPrompt(config),
                      user_prompt |-> UserPrompt(Get(prompt_in).user_message,
                                                 Get(prompt_in).context,
                                                 Get(prompt_in).username) ])
    /\ UNCHANGED << service, store, frame, calls, obs, log, retrieval, process,
                    prompt_in >>

SpecPrompt == PromptInit /\ [][RunBuildPrompt]_vars

\* ------------------------------------------------------- prompt: the claim
Built == Get(prompt_out)

\* The rules and the base the persona configures, read from the document.
ConfiguredRules ==
    IF IsNone(config.system_prompt) \/ IsNone(Get(config.system_prompt).rules)
    THEN << >>
    ELSE Get(Get(config.system_prompt).rules)

ConfiguredBase ==
    IF IsNone(config.system_prompt) \/ IsNone(Get(config.system_prompt).base)
    THEN << "You are a friendly assistant." >>
    ELSE Get(Get(config.system_prompt).base)

\* The positions of token x in text.
Places(text, x) == { i \in DOMAIN text : text[i] = x }

\* C20: a _build_prompt call that returns gives, with a context X, the
\* user prompt of the context header, X, a blank line and "username: Y",
\* so that X stands before Y, and with no context exactly "username: Y",
\* without the header; the system prompt is the persona's base alone when
\* no rules are configured and else the base, the rule header and one
\* bullet per rule, in order.
C20_BuildPromptFormat ==
    (~IsNone(prompt_out) /\ ~Built.raised) =>
        LET X == Get(prompt_in).context
            Y == Get(prompt_in).user_message
            line == Get(prompt_in).username \o << ": " >> \o Y
            base == ConfiguredBase
            rules == ConfiguredRules
            sys == Built.system_prompt
        IN  /\ ~IsNone(X) =>
                  Built.user_prompt =
                      << "[reference]\n" >> \o Get(X) \o << "\n\n" >> \o line
            /\ IsNone(X) =>
                  /\ Built.user_prompt = line
                  /\ Places(Built.user_prompt, "[reference]\n") = { }
            /\ rules = << >> => sys = base
            /\ rules # << >> =>
                  /\ SubSeq(sys, 1, Len(base)) = base
                  /\ Places(sys, "\n\n[rules]\n") = { Len(base) + 1 }
                  /\ Cardinality(Places(sys, "- ")) = Len(rules)
                  /\ \A i \in DOMAIN rules :
                        \E k \in Places(sys, "- ") :
                            /\ k > Len(base) + 1
                            /\ Cardinality({ j \in Places(sys, "- ") : j <= k }) = i
                            /\ SubSeq(sys, k + 1, k + Len(rules[i])) = rules[i]

\* C20 witness: a prompt built with a context for a persona of two rules:
\* the header and the context stand before the user's line.
C20_Witness ==
    /\ ~IsNone(prompt_out)
    /\ ~Built.raised
    /\ ~IsNone(Get(prompt_in).context)
    /\ Len(ConfiguredRules) = 2
    /\ Built.user_prompt[1] = "[reference]\n"
    /\ Len(Built.user_prompt) > Len(Get(Get(prompt_in).context)) + 2

\* ------------------------------------------- line 309 in floating point
\* The specification of the conversion: `1 / (1 + dist)` as Python
\* evaluates it on floats, each of the two operations rounded to nearest,
\* ties to even.  A float here has a significand of Precision bits (a
\* double has 53) and any exponent: the distances drawn stay clear of
\* overflow and underflow, and are finite and not negative.
Precision == 4

RECURSIVE Pow2(_)
Pow2(n) == IF n = 0 THEN 1 ELSE 2 * Pow2(n - 1)

RECURSIVE GCD(_, _)
GCD(a, b) == IF b = 0 THEN a ELSE GCD(b, a % b)

\* The rational in lowest terms.
Lowest(x) == LET g == GCD(x[1], x[2]) IN Rat(x[1] \div g, x[2] \div g)

\* n/d rounded to an integer, a tie to the even one.
RoundHalfEven(n, d) ==
    LET q == n \div d
        r == n % d
    IN  IF 2 * r < d THEN q
        ELSE IF 2 * r > d THEN q + 1
        ELSE IF q % 2 = 0 THEN q ELSE q + 1

\* The float nearest to the rational x >= 0: x is scaled by a power of two
\* until its integer part has Precision bits, rounded there, scaled back.
RECURSIVE Fl(_)
Fl(x) ==
    IF x[1] = 0 THEN Rat(0, 1)
    ELSE IF x[1] >= Pow2(Precision) * x[2]
    THEN LET r == Fl(Rat(x[1], 2 * x[2])) IN Lowest(Rat(2 * r[1], r[2]))
    ELSE IF x[1] < Pow2(Precision - 1) * x[2]
    THEN LET r == Fl(Rat(2 * x[1], x[2])) IN Lowest(Rat(r[1], 2 * r[2]))
    ELSE Rat(RoundHalfEven(x[1], x[2]), 1)

\* Mutant: the conversion is 1 - dist.
FloatSimilarityLinear(dist) == Rat(dist[2] - dist[1], dist[2])

\* line 309: similarity = 1 / (1 + dist), on floats
FloatSimilarity(dist) ==
    LET sum == Fl(Rat(dist[2] + dist[1], dist[2]))
    IN  Fl(Rat(sum[2], sum[1]))

\* The distances drawn: the floats m * 2^-k and m * 2^j with m of Precision
\* bits, from 2^-(Precision + 2) up to 4 * (2^Precision - 1).
FloatDists ==
    { Lowest(Rat(m, Pow2(k))) :
        m \in 0..(Pow2(Precision) - 1), k \in 0..(Precision + 2) }
    \cup { Rat(m * Pow2(j), 1) : m \in 1..(Pow2(Precision) - 1), j \in 1..2 }

ConvertInit ==
    /\ config = FullConfig
    /\ collection = Some("rag_collection")
    /\ message_store = [ s \in SessionIds |-> None ]
    /\ histories = << >>
    /\ frame = [ t \in Threads |-> IdleFrame ]
    /\ calls = 0
    /\ obs = [ t \in Threads |-> IdleObs ]
    /\ log = [ s \in SessionIds |-> << >> ]
    /\ search_in = None
    /\ search_out = None
    /\ Started
    /\ NoPrompt
    /\ convert_in \in { Some(<< d1, d2 >>) :
                         << d1, d2 >> \in { p \in FloatDists \X FloatDists :
                                              RatGE(p[2], p[1]) } }
    /\ convert_out = None

\* The loop body's line 309, for two candidates of the answer.
RunConvert ==
    /\ convert_out = None
    /\ convert_out' = Some(<< FloatSimilarity(Get(convert_in)[1]),
                              FloatSimilarity(Get(convert_in)[2]) >>)
    /\ UNCHANGED << service, store, frame, calls, obs, log, search_in,
                    search_out, convert_in, process, prompting >>

SpecConvert == ConvertInit /\ [][RunConvert]_vars

\* -------------------------------------------------- conversion: the claim
Converted == ~IsNone(convert_out)
Dist1 == Get(convert_in)[1]
Dist2 == Get(convert_in)[2]
Sim1 == Get(convert_out)[1]
Sim2 == Get(convert_out)[2]

\* The similarity lies in (0, 1].
InUnitInterval(sim) == RatGT(sim, Rat(0, 1)) /\ RatGE(Rat(1, 1), sim)

\* C21 as claimed: the similarity the code computes is strictly decreasing
\* in the distance, lies in (0, 1], and is 1 at distance 0.
C21_StrictlyDecreasing ==
    Converted =>
        /\ RatGT(Dist2, Dist1) => RatGT(Sim1, Sim2)
        /\ InUnitInterval(Sim1) /\ InUnitInterval(Sim2)
        /\ Dist1 = Rat(0, 1) => Sim1 = Rat(1, 1)

\* C21 as amended: the similarity the code computes never increases with
\* the distance, lies in (0, 1], and is 1 at distance 0; the exact value
\* 1/(1+d) is strictly decreasing, and the computed similarities of two
\* distances are equal or ordered as the exact values are.
C21_NonIncreasing ==
    Converted =>
        /\ RatGT(Dist2, Dist1) =>
              /\ RatGE(Sim1, Sim2)
              /\ RatGT(Similarity(Dist1), Similarity(Dist2))
        /\ InUnitInterval(Sim1) /\ InUnitInterval(Sim2)
        /\ Dist1 = Rat(0, 1) => Sim1 = Rat(1, 1)

\* C21 witness: two different distances, the smaller not zero, were
\* converted to the same similarity, below 1.
C21_Witness ==
    /\ Converted
    /\ RatGT(Dist1, Rat(0, 1))
    /\ RatGT(Dist2, Dist1)
    /\ RatEQ(Sim1, Sim2)
    /\ RatGT(Rat(1, 1), Sim1)

====
